---- MODULE Spec2Model ----
(***************************************************************************)
(* Model of the projector dashboard: the stack router (ui.Model), the      *)
(* project-list and project-detail screens, the Scanner's worker pool and  *)
(* the VCS probe (GitClient.GetStatus).                                    *)
(*                                                                         *)
(* Strings that the code inspects byte by byte (project names, the filter  *)
(* text) are sequences of one-character strings.  A command returned by an *)
(* Update is a record that sits in the bag `pending` until the runtime     *)
(* delivers its message back to Model.Update.                              *)
(***************************************************************************)
EXTENDS Bags, FiniteSets, Integers, Sequences, TLC

(***************************************************************************)
(* Bounds of the model.                                                    *)
(***************************************************************************)
MaxDepth == 2        \* screens on the stack
MaxPending == 2      \* commands in flight at once
MaxFilterLen == 2    \* bytes of filter text
MaxEntries == 3      \* children of the scanned root
MaxConcurrency == 2  \* configured worker count

VARIABLES
    screens,    \* Model.screens: the navigation stack, last element active
    width,      \* Model.width
    height,     \* Model.height
    isDark,     \* Model.isDark
    quitting,   \* Model.quitting
    phase,      \* "new" after New, "running" after Model.Init, "exited" after quit
    pending,    \* bag of commands in flight (their messages not yet delivered)
    pushed,     \* history: pushed[d] is the stack as it was before the push from depth d
    last,       \* history: the case of Model.Update taken last (ListSpec: the call or key)
    lastCmd     \* history: the command the list screen's Update returned last (ListSpec)

uiVars == <<screens, width, height, isDark, quitting, phase, pending, pushed, last, lastCmd>>

VARIABLES
    entries,     \* the children of rootDir as os.ReadDir lists them
    readErr,     \* os.ReadDir(rootDir) fails
    concurrency, \* Scanner.concurrency
    spc,         \* where Scan is: "start", "spawn", "send", "wait", "returned"
    dirs,        \* Scan's dirs
    sent,        \* how many of dirs the send loop has put on jobs
    jobs,        \* the jobs channel
    closed,      \* close(jobs) has run
    workers,     \* the worker goroutines: where each is and the dir it holds
    results,     \* the results channel
    errors,      \* the errors channel
    ret,         \* what Scan returned: (projects, err)
    probeErr     \* history: the dirs whose GetStatus returned an error

scanVars == <<entries, readErr, concurrency, spc, dirs, sent, jobs, closed, workers,
              results, errors, ret, probeErr>>

VARIABLES
    repo,        \* the repository a probe runs in: what each query would answer
    got          \* what GetStatus returned for repo, Nil before it has

probeVars == <<repo, got>>

VARIABLES
    arg,         \* the receiver or argument a function is called on as a unit
    out          \* [val |-> what the call returned], Nil before it has

callVars == <<arg, out>>

vars == <<uiVars, scanVars, probeVars, callVars>>

(***************************************************************************)
(* Inputs.                                                                 *)
(***************************************************************************)
alpha == <<"a", "l", "p", "h", "a">>
Beta == <<"B", "e", "t", "a">>
gamma == <<"g", "a", "m", "m", "a">>

Project(name) == [Name |-> name]

\* Results a scan command can deliver: Scan's (projects, err).
ScanResults ==
    { [projects |-> <<>>, err |-> TRUE],
      [projects |-> <<>>, err |-> FALSE],
      [projects |-> <<Project(Beta)>>, err |-> FALSE],
      [projects |-> <<Project(alpha), Project(Beta), Project(gamma)>>, err |-> FALSE] }

\* Terminal sizes a window-size event can carry.
Sizes == { <<0, 0>>, <<80, 24>> }

\* msg.String() of the key presses the model feeds in.
SingleCharKeys == {"k", "j", "r", "/", "?", "q", "e", "t"}
NamedKeys == {"up", "down", "enter", "esc", "backspace", "ctrl+c"}
\* A key whose one character takes two bytes in msg.String().
TwoByteKeys == {"é"}
\* The keys that print one character.
CharacterKeys == SingleCharKeys \cup TwoByteKeys
Keys == CharacterKeys \cup NamedKeys

\* Keys fed to the router in Spec (the list screen alone gets all of Keys).
RouterKeys == {"r", "enter", "esc", "q", "ctrl+c"}

\* len(msg.String()), in bytes
KeyLen(k) == IF k \in SingleCharKeys THEN 1 ELSE 2

(***************************************************************************)
(* strings.ToLower and strings.Contains on byte sequences.                 *)
(***************************************************************************)
UpperToLower == ("A" :> "a") @@ ("B" :> "b") @@ ("G" :> "g") @@ ("E" :> "e") @@ ("T" :> "t")

AsTyped(str) == str

\* strings.ToLower
ToLower(str) ==
    [i \in 1..Len(str) |->
        IF str[i] \in DOMAIN UpperToLower THEN UpperToLower[str[i]] ELSE str[i]]

Contains(str, sub) ==
    \E i \in 0..(Len(str) - Len(sub)) : SubSeq(str, i + 1, i + Len(sub)) = sub

Max(a, b) == IF a >= b THEN a ELSE b

\* The sequences over S of length n at most.
SeqsUpTo(S, n) == UNION { [1..k -> S] : k \in 0..n }

(***************************************************************************)
(* Commands and messages.                                                  *)
(***************************************************************************)
Nil == [type |-> "nil"]
ScanCmd == [type |-> "ScanCompleteMsg"]
PopCmd == [type |-> "PopMsg"]
QuitCmd == [type |-> "QuitMsg"]
PushCmd(s) == [type |-> "PushMsg", Screen |-> s]

WindowSizeMsg(w, h) == [type |-> "WindowSizeMsg", Width |-> w, Height |-> h]
KeyPressMsg(k) == [type |-> "KeyPressMsg", key |-> k]
BackgroundColorMsg(d) == [type |-> "BackgroundColorMsg", dark |-> d]
ScanCompleteMsg(r) == [type |-> "ScanCompleteMsg", projects |-> r.projects, err |-> r.err]

(***************************************************************************)
(* Screens.  ScreenBase contributes IsDark, Width, Height and Help.ShowAll.*)
(***************************************************************************)
NewProjectsListScreen(dark) ==
    [kind |-> "list", IsDark |-> dark, Width |-> 0, Height |-> 0, ShowAll |-> FALSE,
     projects |-> <<>>, selectedIdx |-> 0, scanning |-> FALSE, ready |-> FALSE,
     scanner |-> FALSE, filterText |-> <<>>, filtering |-> FALSE]

SetScanner(s) == [s EXCEPT !.scanner = TRUE]

NewProjectDetailScreen(project, dark) ==
    [kind |-> "detail", IsDark |-> dark, Width |-> 0, Height |-> 0, ShowAll |-> FALSE,
     project |-> project, ready |-> FALSE]

\* ScreenBase.ApplyTheme, reached through SetTheme of either screen.
SetTheme(s, dark) == [s EXCEPT !.IsDark = dark]

filteredProjects(s) ==
    IF s.filterText = <<>>
    THEN s.projects
    ELSE SelectSeq(s.projects,
                   LAMBDA p : Contains(ToLower(p.Name), ToLower(s.filterText)))

\* The result of an Update or Init: the screen and the command it returns.
Ret(s, cmd) == [screen |-> s, cmd |-> cmd]

ListInit(s) ==
    IF s.scanner
    THEN Ret([s EXCEPT !.scanning = TRUE], ScanCmd)
    ELSE Ret(s, Nil)

ClearedOnly(s) == [s EXCEPT !.filterText = << >>]

\* case "esc" of handleFilterInput
LeaveFilter(s) == [s EXCEPT !.filtering = FALSE, !.filterText = << >>]

KeptWhole(str) == str

\* s.filterText[:len(s.filterText)-1]
DropLast(str) == SubSeq(str, 1, Len(str) - 1)

handleFilterInput(s, k) ==
    CASE k = "esc" -> Ret(LeaveFilter(s), Nil)
      [] k = "enter" -> Ret([s EXCEPT !.filtering = FALSE], Nil)
      [] k = "backspace" ->
            IF Len(s.filterText) > 0
            THEN Ret([s EXCEPT !.filterText = DropLast(@)], Nil)
            ELSE Ret(s, Nil)
      [] OTHER ->
            IF KeyLen(k) = 1
            THEN Ret([s EXCEPT !.filterText = Append(@, k)], Nil)
            ELSE Ret(s, Nil)

RefreshAlways(s) == s.scanner

\* The guard of the refresh key.
RefreshAllowed(s) == ~s.scanning /\ s.scanner

SameIndexUnfiltered(s) == s.projects[s.selectedIdx + 1]

\* filtered[s.selectedIdx], the argument of NewProjectDetailScreen in case "enter"
UnderCursor(s) == filteredProjects(s)[s.selectedIdx + 1]

handleNormalInput(s, k) ==
    LET filtered == filteredProjects(s) IN
    CASE k \in {"up", "k"} ->
            IF s.selectedIdx > 0
            THEN Ret([s EXCEPT !.selectedIdx = @ - 1], Nil)
            ELSE Ret(s, Nil)
      [] k \in {"down", "j"} ->
            IF s.selectedIdx < Len(filtered) - 1
            THEN Ret([s EXCEPT !.selectedIdx = @ + 1], Nil)
            ELSE Ret(s, Nil)
      [] k = "r" ->
            IF RefreshAllowed(s)
            THEN Ret([s EXCEPT !.scanning = TRUE], ScanCmd)
            ELSE Ret(s, Nil)
      [] k = "/" -> Ret([s EXCEPT !.filtering = TRUE, !.filterText = <<>>], Nil)
      [] k = "enter" ->
            IF Len(filtered) > 0 /\ s.selectedIdx < Len(filtered)
            THEN Ret(s, PushCmd(NewProjectDetailScreen(UnderCursor(s), s.IsDark)))
            ELSE Ret(s, Nil)
      [] k = "esc" -> Ret(s, PopCmd)
      [] k = "?" -> Ret([s EXCEPT !.ShowAll = ~@], Nil)
      [] OTHER -> Ret(s, Nil)

ClampUnfiltered(s) ==
    IF s.selectedIdx >= Len(s.projects)
    THEN [s EXCEPT !.selectedIdx = Max(0, Len(s.projects) - 1)]
    ELSE s

\* The clamp at the end of the ScanCompleteMsg case.
ClampSelection(s) ==
    IF s.selectedIdx >= Len(filteredProjects(s))
    THEN [s EXCEPT !.selectedIdx = Max(0, Len(filteredProjects(s)) - 1)]
    ELSE s

FilterModeWithText(s) == s.filtering /\ s.filterText # << >>

\* if s.filtering, the choice between the two key handlers
InFilterMode(s) == s.filtering

ListUpdate(s, msg) ==
    CASE msg.type = "WindowSizeMsg" ->
            Ret([s EXCEPT !.Width = msg.Width, !.Height = msg.Height, !.ready = TRUE], Nil)
      [] msg.type = "KeyPressMsg" ->
            IF InFilterMode(s)
            THEN handleFilterInput(s, msg.key)
            ELSE handleNormalInput(s, msg.key)
      [] msg.type = "ScanCompleteMsg" ->
            Ret(ClampSelection(
                    [s EXCEPT !.scanning = FALSE,
                              !.projects = IF msg.err THEN <<>> ELSE msg.projects]),
                Nil)
      [] OTHER -> Ret(s, Nil)

DetailInit(s) == Ret(s, Nil)

DetailUpdate(s, msg) ==
    CASE msg.type = "WindowSizeMsg" ->
            Ret([s EXCEPT !.Width = msg.Width, !.Height = msg.Height, !.ready = TRUE], Nil)
      [] msg.type = "KeyPressMsg" ->
            ( CASE msg.key \in {"esc", "q"} -> Ret(s, PopCmd)
                [] msg.key = "?" -> Ret([s EXCEPT !.ShowAll = ~@], Nil)
                [] OTHER -> Ret(s, Nil) )
      [] OTHER -> Ret(s, Nil)

\* Dispatch through the nav.Screen interface.
ScreenInit(s) == IF s.kind = "list" THEN ListInit(s) ELSE DetailInit(s)
ScreenUpdate(s, msg) == IF s.kind = "list" THEN ListUpdate(s, msg) ELSE DetailUpdate(s, msg)

\* View of either screen: the literal "Loading..." until ready, the framed layout after.
View(s) == IF ~s.ready THEN "Loading..." ELSE "frame"

(***************************************************************************)
(* The router, ui.Model.                                                   *)
(***************************************************************************)
Top(stk) == stk[Len(stk)]
SetTop(stk, s) == [stk EXCEPT ![Len(stk)] = s]
Front(stk) == SubSeq(stk, 1, Len(stk) - 1)

\* tea.Batch: the commands that are not nil, as a bag.
Batch(cmds) == [c \in {cmds[i] : i \in {j \in DOMAIN cmds : cmds[j] # Nil}} |->
                    Cardinality({i \in DOMAIN cmds : cmds[i] = c})]

\* The commands of one Update fit the bound on commands in flight.
Room(base, cmds) == BagCardinality(base (+) Batch(cmds)) <= MaxPending

\* New: one root list screen with its scanner set, everything else zero.
New ==
    /\ screens = << SetScanner(NewProjectsListScreen(FALSE)) >>
    /\ width = 0
    /\ height = 0
    /\ isDark = FALSE
    /\ quitting = FALSE

UIInit ==
    /\ New
    /\ phase = "new"
    /\ pending = EmptyBag
    /\ pushed = << >>
    /\ last = "none"
    /\ lastCmd = Nil

DelegateToAll(stk, msg) ==
    IF Len(stk) > 0
    THEN Ret([i \in 1..Len(stk) |-> ScreenUpdate(stk[i], msg).screen],
             ScreenUpdate(Top(stk), msg).cmd)
    ELSE Ret(stk, Nil)

\* The tail of Model.Update: hand msg to the active screen of stk.
Delegate(stk, msg) ==
    IF Len(stk) > 0
    THEN LET r == ScreenUpdate(Top(stk), msg) IN Ret(SetTop(stk, r.screen), r.cmd)
    ELSE Ret(stk, Nil)

\* Model.Init: the runtime calls it once, before the first message.
ModelInit ==
    /\ UNCHANGED <<lastCmd, scanVars, probeVars, callVars>>
    /\ last' = "Init"
    /\ phase = "new"
    /\ LET r == IF Len(screens) > 0 THEN ScreenInit(Top(screens)) ELSE Ret(Nil, Nil) IN
        /\ screens' = IF Len(screens) > 0 THEN SetTop(screens, r.screen) ELSE screens
        /\ pending' = pending (+) Batch(<<r.cmd>>)
    /\ phase' = "running"
    /\ UNCHANGED <<width, height, isDark, quitting, pushed>>

InterruptInNormalMode(stk, k) ==
    /\ k = "ctrl+c"
    /\ ~(Len(stk) > 0 /\ stk[Len(stk)].kind = "list" /\ stk[Len(stk)].filtering)

\* The test of the interrupt binding in case tea.KeyPressMsg.
IsInterrupt(stk, k) == k = "ctrl+c"

\* case tea.KeyPressMsg
KeyPress(k) ==
    /\ UNCHANGED <<lastCmd, scanVars, probeVars, callVars>>
    /\ last' = IF k = "ctrl+c" THEN "KeyPressMsg ctrl+c" ELSE "KeyPressMsg"
    /\ phase = "running"
    /\ IF IsInterrupt(screens, k)
       THEN /\ Room(pending, <<QuitCmd>>)
            /\ quitting' = TRUE
            /\ pending' = pending (+) Batch(<<QuitCmd>>)
            /\ UNCHANGED screens
       ELSE LET r == Delegate(screens, KeyPressMsg(k)) IN
            /\ Room(pending, <<r.cmd>>)
            /\ Len(r.screen) > 0 =>
                 (Top(r.screen).kind = "list" => Len(Top(r.screen).filterText) <= MaxFilterLen)
            /\ screens' = r.screen
            /\ pending' = pending (+) Batch(<<r.cmd>>)
            /\ UNCHANGED quitting
    /\ UNCHANGED <<width, height, isDark, phase, pushed>>

\* case tea.WindowSizeMsg
WindowSize(w, h) ==
    /\ UNCHANGED <<lastCmd, scanVars, probeVars, callVars>>
    /\ last' = "WindowSizeMsg"
    /\ phase = "running"
    /\ width' = w
    /\ height' = h
    /\ LET r == Delegate(screens, WindowSizeMsg(w, h)) IN
        /\ Room(pending, <<r.cmd>>)
        /\ screens' = r.screen
        /\ pending' = pending (+) Batch(<<r.cmd>>)
    /\ UNCHANGED <<isDark, quitting, phase, pushed>>

ThemeTopOnly(stk, dark) ==
    [i \in 1..Len(stk) |-> IF i = Len(stk) THEN SetTheme(stk[i], dark) ELSE stk[i]]

\* The loop over the stack in case tea.BackgroundColorMsg.
ThemeAll(stk, dark) == [i \in 1..Len(stk) |-> SetTheme(stk[i], dark)]

\* case tea.BackgroundColorMsg
BackgroundColor(d) ==
    /\ UNCHANGED <<lastCmd, scanVars, probeVars, callVars>>
    /\ last' = "BackgroundColorMsg"
    /\ phase = "running"
    /\ isDark' = d
    /\ LET r == Delegate(ThemeAll(screens, d), BackgroundColorMsg(d)) IN
        /\ Room(pending, <<r.cmd>>)
        /\ screens' = r.screen
        /\ pending' = pending (+) Batch(<<r.cmd>>)
    /\ UNCHANGED <<width, height, quitting, phase, pushed>>

IncomingUnsized(s, dark, w, h) ==
    LET r1 == ScreenInit(s)
    IN [screen |-> SetTheme(r1.screen, dark), cmds |-> <<r1.cmd>>]

\* Init, SetTheme and the synthetic window-size event of Push and Replace.
Incoming(s, dark, w, h) ==
    LET r1 == ScreenInit(s)
        r2 == ScreenUpdate(SetTheme(r1.screen, dark), WindowSizeMsg(w, h))
    IN [screen |-> r2.screen, cmds |-> <<r1.cmd, r2.cmd>>]

\* case nav.PushMsg
Push(m) ==
    /\ UNCHANGED <<lastCmd, scanVars, probeVars, callVars>>
    /\ last' = "PushMsg"
    /\ phase = "running"
    /\ BagIn(m, pending)
    /\ m.type = "PushMsg"
    /\ Len(screens) < MaxDepth
    /\ LET in == Incoming(m.Screen, isDark, width, height)
           base == pending (-) SetToBag({m})
       IN
        /\ Room(base, in.cmds)
        /\ screens' = Append(screens, in.screen)
        /\ pending' = base (+) Batch(in.cmds)
    /\ pushed' = Append(pushed, screens)
    /\ UNCHANGED <<width, height, isDark, quitting, phase>>

CanPopLast(stk) == Len(stk) > 0

\* The guard of case nav.PopMsg.
CanPop(stk) == Len(stk) > 1

ExposedAsLeft(stk, w, h) == Ret(stk, Nil)

\* The refresh of the newly exposed screen in case nav.PopMsg.
Exposed(stk, w, h) == Delegate(stk, WindowSizeMsg(w, h))

\* case nav.PopMsg
Pop ==
    /\ UNCHANGED <<lastCmd, scanVars, probeVars, callVars>>
    /\ phase = "running"
    /\ BagIn(PopCmd, pending)
    /\ LET base == pending (-) SetToBag({PopCmd}) IN
       IF CanPop(screens)
       THEN LET r == Exposed(Front(screens), width, height) IN
            /\ Room(base, <<r.cmd>>)
            /\ screens' = r.screen
            /\ pending' = base (+) Batch(<<r.cmd>>)
            /\ pushed' = Front(pushed)
            /\ last' = "PopMsg"
       ELSE /\ pending' = base
            /\ last' = "PopMsg ignored"
            /\ UNCHANGED <<screens, pushed>>
    /\ UNCHANGED <<width, height, isDark, quitting, phase>>

OverwrittenBottom(stk, s) == [stk EXCEPT ![1] = s]

\* m.screens[len(m.screens)-1] = s in case nav.ReplaceMsg
Overwritten(stk, s) == SetTop(stk, s)

\* case nav.ReplaceMsg; the message comes from outside the two screens modelled.
Replace(s) ==
    /\ UNCHANGED <<lastCmd, scanVars, probeVars, callVars>>
    /\ last' = "ReplaceMsg"
    /\ phase = "running"
    /\ IF Len(screens) > 0
       THEN LET in == Incoming(s, isDark, width, height) IN
            /\ Room(pending, in.cmds)
            /\ screens' = Overwritten(screens, in.screen)
            /\ pending' = pending (+) Batch(in.cmds)
       ELSE UNCHANGED <<screens, pending>>
    /\ UNCHANGED <<width, height, isDark, quitting, phase, pushed>>

\* case screens.SettingsAppliedMsg; the message comes from outside the two screens modelled.
SettingsApplied ==
    /\ UNCHANGED <<lastCmd, scanVars, probeVars, callVars>>
    /\ last' = "SettingsAppliedMsg"
    /\ phase = "running"
    /\ IF Len(screens) > 1
       THEN /\ screens' = Front(screens)
            /\ pushed' = Front(pushed)
       ELSE UNCHANGED <<screens, pushed>>
    /\ UNCHANGED <<width, height, isDark, quitting, phase, pending>>

\* A scan command finishes with result r and its ScanCompleteMsg reaches Model.Update,
\* which has no case for it and delegates to the active screen.
ScanComplete(r) ==
    /\ UNCHANGED <<lastCmd, scanVars, probeVars, callVars>>
    /\ last' = "ScanCompleteMsg"
    /\ phase = "running"
    /\ BagIn(ScanCmd, pending)
    /\ LET base == pending (-) SetToBag({ScanCmd})
           d == Delegate(screens, ScanCompleteMsg(r))
       IN
        /\ Room(base, <<d.cmd>>)
        /\ screens' = d.screen
        /\ pending' = base (+) Batch(<<d.cmd>>)
    /\ UNCHANGED <<width, height, isDark, quitting, phase, pushed>>

\* tea.Quit's message ends the event loop.
Quit ==
    /\ UNCHANGED <<lastCmd, scanVars, probeVars, callVars>>
    /\ last' = "QuitMsg"
    /\ phase = "running"
    /\ BagIn(QuitCmd, pending)
    /\ pending' = pending (-) SetToBag({QuitCmd})
    /\ phase' = "exited"
    /\ UNCHANGED <<screens, width, height, isDark, quitting, pushed>>

\* Model.View: the content of the tea.View it returns.
ModelView(q, stk) ==
    IF q THEN ""
    ELSE IF Len(stk) > 0 THEN View(Top(stk)) ELSE ""

\* Screens a ReplaceMsg can carry: a detail screen built with either theme.
ReplaceScreens == { NewProjectDetailScreen(p, d) : p \in {Project(Beta)}, d \in BOOLEAN }

\* No scan is modelled step by step in Spec and ListSpec: a scan command is a token of
\* `pending` there and its result one of ScanResults.
ScanIdle ==
    /\ entries = << >>
    /\ readErr = FALSE
    /\ concurrency = 1
    /\ spc = "start"
    /\ dirs = << >>
    /\ sent = 0
    /\ jobs = << >>
    /\ closed = FALSE
    /\ workers = << >>
    /\ results = << >>
    /\ errors = << >>
    /\ ret = Nil
    /\ probeErr = {}

\* No probe is modelled on its own in Spec, ListSpec and ScanSpec.
ProbeIdle ==
    /\ repo = Nil
    /\ got = Nil

\* No function is called as a unit in Spec, ListSpec, ScanSpec and ProbeSpec.
CallIdle ==
    /\ arg = Nil
    /\ out = Nil

Init == UIInit /\ ScanIdle /\ ProbeIdle /\ CallIdle

Next ==
    \/ ModelInit
    \/ \E k \in RouterKeys : KeyPress(k)
    \/ \E sz \in Sizes : WindowSize(sz[1], sz[2])
    \/ \E d \in BOOLEAN : BackgroundColor(d)
    \/ \E m \in BagToSet(pending) : Push(m)
    \/ Pop
    \/ \E s \in ReplaceScreens : Replace(s)
    \/ SettingsApplied
    \/ \E r \in ScanResults : ScanComplete(r)
    \/ Quit

Spec == Init /\ [][Next]_vars

(***************************************************************************)
(* The list screen on its own: ProjectsListScreen.Init and Update driven   *)
(* by every key of Keys, window-size events and scan completions.          *)
(***************************************************************************)
ListKeys == Keys \ {"ctrl+c"}

\* Only the scan command has a completion that comes back to the list screen.
Dispatched(cmd) == IF cmd = ScanCmd THEN Batch(<<cmd>>) ELSE EmptyBag

\* One call of the list screen: `what` names the call (for a key press, the key).
ListStep(what, r, base) ==
    /\ screens' = << r.screen >>
    /\ last' = what
    /\ lastCmd' = r.cmd
    /\ pending' = base (+) Dispatched(r.cmd)
    /\ BagCardinality(pending') <= MaxPending
    /\ UNCHANGED <<width, height, isDark, quitting, pushed, scanVars, probeVars, callVars>>

LInit ==
    /\ phase = "new"
    /\ phase' = "running"
    /\ ListStep("Init", ListInit(screens[1]), pending)

LKey(k) ==
    /\ phase = "running"
    /\ LET r == ListUpdate(screens[1], KeyPressMsg(k)) IN
        /\ Len(r.screen.filterText) <= MaxFilterLen
        /\ ListStep(k, r, pending)
    /\ UNCHANGED phase

LWindowSize(w, h) ==
    /\ phase = "running"
    /\ ListStep("WindowSizeMsg", ListUpdate(screens[1], WindowSizeMsg(w, h)), pending)
    /\ UNCHANGED phase

LScanComplete(r) ==
    /\ phase = "running"
    /\ BagIn(ScanCmd, pending)
    /\ ListStep(IF r.err THEN "ScanCompleteMsg err" ELSE "ScanCompleteMsg", ListUpdate(screens[1], ScanCompleteMsg(r)),
                pending (-) SetToBag({ScanCmd}))
    /\ UNCHANGED phase

ListNext ==
    \/ LInit
    \/ \E k \in ListKeys : LKey(k)
    \/ \E sz \in Sizes : LWindowSize(sz[1], sz[2])
    \/ \E r \in ScanResults : LScanComplete(r)

ListSpec == Init /\ [][ListNext]_vars

(***************************************************************************)
(* The router over the list screen in its two input modes: the keys that   *)
(* open the filter and type into it, the interrupt, and the selection key  *)
(* that pushes a detail screen.                                            *)
(***************************************************************************)
FilterKeys == {"/", "e", "enter", "ctrl+c"}

FilterNext ==
    \/ ModelInit
    \/ \E k \in FilterKeys : KeyPress(k)
    \/ \E sz \in Sizes : WindowSize(sz[1], sz[2])
    \/ \E m \in BagToSet(pending) : Push(m)
    \/ \E r \in ScanResults : ScanComplete(r)
    \/ Quit

FilterSpec == Init /\ [][FilterNext]_vars

(***************************************************************************)
(* The router over the list screen and the detail screens it opens: the    *)
(* cursor, the filter, the selection key and the refresh key, with scan    *)
(* results arriving at any time.                                           *)
(***************************************************************************)
DetailKeys == {"j", "/", "e", "enter", "r"}

DetailNext ==
    \/ ModelInit
    \/ \E k \in DetailKeys : KeyPress(k)
    \/ \E m \in BagToSet(pending) : Push(m)
    \/ \E r \in ScanResults : ScanComplete(r)

DetailSpec == Init /\ [][DetailNext]_vars

(***************************************************************************)
(* filteredProjects called as a unit, on list screens holding any sequence *)
(* of up to MaxEntries of the names alpha, Beta, gamma and any filter text *)
(* of up to MaxFilterLen letters of either case.                           *)
(***************************************************************************)
FilterLetters == {"a", "b", "B", "E", "t", "m"}

ProjectLists == SeqsUpTo({Project(alpha), Project(Beta), Project(gamma)}, MaxEntries)

FilterArgs ==
    { [NewProjectsListScreen(FALSE) EXCEPT !.projects = ps, !.filterText = ft] :
        ps \in ProjectLists, ft \in SeqsUpTo(FilterLetters, MaxFilterLen) }

FilterFnInit ==
    /\ UIInit
    /\ ScanIdle
    /\ ProbeIdle
    /\ arg \in FilterArgs
    /\ out = Nil

\* One call of s.filteredProjects(); the receiver is only read.
CallFilteredProjects ==
    /\ out = Nil
    /\ out' = [val |-> filteredProjects(arg)]
    /\ UNCHANGED <<arg, uiVars, scanVars, probeVars>>

FilterFnNext ==
    \/ CallFilteredProjects

FilterFnSpec == FilterFnInit /\ [][FilterFnNext]_vars

(***************************************************************************)
(* The VCS probe, GitClient.GetStatus.                                     *)
(*                                                                         *)
(* A repository answers each query with Failed (non-zero exit) or with its *)
(* standard output: a sequence of lines, a log line being the sequence of  *)
(* its "|"-separated pieces.  `hang` is the number of the query that runs  *)
(* into the deadline of the context the six queries share (0: none).       *)
(***************************************************************************)
StatusClean == 0
StatusDirty == 1
StatusAhead == 2
StatusBehind == 3
StatusDiverged == 4
StatusNoRemote == 5

ZeroTime == [zero |-> TRUE, unix |-> 0]
Unix(sec) == [zero |-> FALSE, unix |-> sec]

\* The zero value of GitStatus.
ZeroGitStatus ==
    [Branch |-> "", Remote |-> "", Uncommitted |-> 0, Unpushed |-> 0, Unpulled |-> 0,
     LastCommitMsg |-> "", LastCommitTime |-> ZeroTime, LastCommitAuthor |-> "",
     Status |-> StatusClean]

Failed == [fail |-> TRUE, out |-> << >>]
Out(lines) == [fail |-> FALSE, out |-> lines]

\* The order in which GetStatus issues its queries.
QueryNo == [branch |-> 1, upstream |-> 2, porcelain |-> 3, ahead |-> 4, behind |-> 5, log |-> 6]

\* runGit: the command fails once the shared context is past its deadline.
runGit(env, q) ==
    IF env.hang # 0 /\ QueryNo[q] >= env.hang THEN Failed ELSE env[q]

\* strings.TrimSpace of a command's output that is one line at most.
TrimSpace(lines) == IF lines = << >> THEN "" ELSE lines[1]

\* strconv.Atoi and strconv.ParseInt on the strings the model uses.
Digits == ("0" :> 0) @@ ("1" :> 1) @@ ("2" :> 2) @@ ("100" :> 100)
Atoi(str) == IF str \in DOMAIN Digits THEN [val |-> Digits[str], err |-> FALSE]
                                      ELSE [val |-> 0, err |-> TRUE]

Val(v) == [val |-> v, err |-> FALSE]
Err(v) == [val |-> v, err |-> TRUE]

getBranch(env) ==
    LET o == runGit(env, "branch") IN
    IF o.fail THEN Err("") ELSE Val(TrimSpace(o.out))

getRemote(env) ==
    LET o == runGit(env, "upstream") IN
    IF o.fail THEN Err("") ELSE Val(TrimSpace(o.out))

getUncommitted(env) ==
    LET o == runGit(env, "porcelain") IN
    IF o.fail THEN Err(0)
    ELSE IF o.out = << >> THEN Val(0) ELSE Val(Len(o.out))

getUnpushed(env) ==
    LET o == runGit(env, "ahead") IN
    IF o.fail THEN Err(0) ELSE Atoi(TrimSpace(o.out))

getUnpulled(env) ==
    LET o == runGit(env, "behind") IN
    IF o.fail THEN Err(0) ELSE Atoi(TrimSpace(o.out))

\* strings.SplitN(line, "|", 3): the pieces after the second stay joined.
SplitN3(pieces) ==
    IF Len(pieces) <= 3 THEN pieces
    ELSE << pieces[1], pieces[2], SubSeq(pieces, 3, Len(pieces)) >>

getLastCommitLenient(env) ==
    LET o == runGit(env, "log") IN
    IF o.fail THEN Err([msg |-> "", author |-> "", t |-> ZeroTime])
    ELSE LET parts == SplitN3(IF o.out = << >> THEN << "" >> ELSE o.out[1]) IN
         IF Len(parts) < 3 THEN Err([msg |-> "", author |-> "", t |-> ZeroTime])
         ELSE LET ts == Atoi(parts[3]) IN
              Val([msg |-> parts[1], author |-> parts[2],
                   t |-> IF ts.err THEN ZeroTime ELSE Unix(ts.val)])

getLastCommit(env) ==
    LET o == runGit(env, "log") IN
    IF o.fail THEN Err([msg |-> "", author |-> "", t |-> ZeroTime])
    ELSE LET parts == SplitN3(IF o.out = << >> THEN << "" >> ELSE o.out[1]) IN
         IF Len(parts) < 3 THEN Err([msg |-> "", author |-> "", t |-> ZeroTime])
         ELSE LET ts == Atoi(parts[3]) IN
              IF ts.err THEN Err([msg |-> parts[1], author |-> parts[2], t |-> ZeroTime])
              ELSE Val([msg |-> parts[1], author |-> parts[2], t |-> Unix(ts.val)])

determineStatus(uncommitted, unpushed, unpulled) ==
    IF uncommitted > 0 THEN StatusDirty
    ELSE IF unpushed > 0 /\ unpulled > 0 THEN StatusDiverged
    ELSE IF unpushed > 0 THEN StatusAhead
    ELSE IF unpulled > 0 THEN StatusBehind
    ELSE StatusClean

RemoteQueried(remote) == ~remote.err

\* if remote != ""
HasRemote(remote) == remote.val # ""

\* GetStatus: (GitStatus, error), and the queries it ran, in order.
GetStatus(env) ==
    LET branch == getBranch(env) IN
    IF branch.err THEN Err(ZeroGitStatus) @@ [ran |-> <<"branch">>]
    ELSE
    LET remote == getRemote(env)
        uncommitted == getUncommitted(env)
        unpushed == getUnpushed(env)
        unpulled == getUnpulled(env)
        commit == getLastCommit(env)
        s1 == [ZeroGitStatus EXCEPT !.Branch = branch.val]
        s2 == IF remote.err
              THEN [s1 EXCEPT !.Remote = "", !.Status = StatusNoRemote]
              ELSE [s1 EXCEPT !.Remote = remote.val]
        s3 == [s2 EXCEPT !.Uncommitted = uncommitted.val]
        s4 == IF HasRemote(remote)
              THEN [s3 EXCEPT !.Unpushed = unpushed.val,
                              !.Unpulled = unpulled.val,
                              !.Status = determineStatus(uncommitted.val, unpushed.val,
                                                         unpulled.val)]
              ELSE IF uncommitted.val > 0
                   THEN [s3 EXCEPT !.Status = StatusDirty]
                   ELSE s3
        s5 == IF commit.err
              THEN s4
              ELSE [s4 EXCEPT !.LastCommitMsg = commit.val.msg,
                              !.LastCommitAuthor = commit.val.author,
                              !.LastCommitTime = commit.val.t]
    IN Val(s5) @@ [ran |-> <<"branch", "upstream", "porcelain">>
                             \o (IF HasRemote(remote) THEN <<"ahead", "behind">> ELSE << >>)
                             \o <<"log">>]

\* The repositories the scanned root can hold.
Repo(branch, upstream, porcelain, ahead, behind, log, hang) ==
    [branch |-> branch, upstream |-> upstream, porcelain |-> porcelain,
     ahead |-> ahead, behind |-> behind, log |-> log, hang |-> hang]

LogLine == << <<"init", "ann", "100">> >>

GitEnvs ==
    { \* HEAD cannot be resolved: the branch query fails
      Repo(Failed, Failed, Failed, Failed, Failed, Failed, 0),
      \* no upstream configured, clean tree
      Repo(Out(<<"main">>), Failed, Out(<< >>), Failed, Failed, Out(LogLine), 0),
      \* no upstream configured, two modified files
      Repo(Out(<<"main">>), Failed, Out(<<" M a", " M b">>), Failed, Failed, Out(LogLine), 0),
      \* the upstream query succeeds with empty output
      Repo(Out(<<"main">>), Out(<< >>), Out(<< >>), Failed, Failed, Out(LogLine), 0),
      \* upstream set, one commit ahead, two behind
      Repo(Out(<<"main">>), Out(<<"origin/main">>), Out(<< >>), Out(<<"1">>), Out(<<"2">>),
           Out(LogLine), 0),
      \* upstream set, the last-commit query runs into the deadline
      Repo(Out(<<"main">>), Out(<<"origin/main">>), Out(<< >>), Out(<<"0">>), Out(<<"0">>),
           Out(LogLine), 6) }

(***************************************************************************)
(* One probe on its own: GetStatus run in every repository that answers    *)
(* each query with a failure, with well-formed output or with output that  *)
(* does not parse, and with the shared deadline expiring in any query.     *)
(***************************************************************************)
BranchAnswers == { Failed, Out(<<"main">>) }
UpstreamAnswers == { Failed, Out(<< >>), Out(<<"origin/main">>) }
PorcelainAnswers == { Failed, Out(<< >>), Out(<<" M a", " M b">>) }
CountAnswers == { Failed, Out(<<"0">>), Out(<<"2">>), Out(<<"x">>) }
LogAnswers == { Failed, Out(LogLine), Out(<< <<"init">> >>), Out(<< <<"init", "ann", "x">> >>) }

ProbeEnvs ==
    { Repo(b, u, p, a, h, l, d) :
        b \in BranchAnswers, u \in UpstreamAnswers, p \in PorcelainAnswers,
        a \in CountAnswers, h \in CountAnswers, l \in LogAnswers, d \in 0..6 }

ProbeInit ==
    /\ UIInit
    /\ ScanIdle
    /\ repo \in ProbeEnvs
    /\ got = Nil
    /\ CallIdle

\* One call of GetStatus.
Probe ==
    /\ got = Nil
    /\ got' = GetStatus(repo)
    /\ UNCHANGED <<repo, uiVars, scanVars, callVars>>

ProbeNext ==
    \/ Probe

ProbeSpec == ProbeInit /\ [][ProbeNext]_vars

(***************************************************************************)
(* The Scanner: Scan, worker and scanProject.                              *)
(*                                                                         *)
(* A child of the root is "file" (not a directory) or a directory whose    *)
(* .git entry os.Stat reports as missing ("nogit"), as a regular file      *)
(* ("gitfile"), with an error other than not-exist ("staterr") or as a     *)
(* directory ("repo").                                                     *)
(***************************************************************************)
ChildKinds == {"file", "nogit", "gitfile", "staterr", "repo"}

\* filepath.Join(rootDir, name) and filepath.Base(dir)
Join(root, name) == << root, name >>
Base(dir) == dir[Len(dir)]

\* The child that a path of dirs names.
KindOf(dir) == entries[Base(dir)]

ScanInit ==
    /\ UIInit
    /\ readErr \in BOOLEAN
    /\ entries \in (IF readErr THEN {<< >>} ELSE SeqsUpTo(ChildKinds, MaxEntries))
    /\ concurrency \in 1..MaxConcurrency
    /\ spc = "start"
    /\ dirs = << >>
    /\ sent = 0
    /\ jobs = << >>
    /\ closed = FALSE
    /\ workers = << >>
    /\ results = << >>
    /\ errors = << >>
    /\ ret = Nil
    /\ probeErr = {}
    /\ ProbeIdle
    /\ CallIdle

\* The directories among the entries, in order.
Dirs(es) ==
    LET idx == SelectSeq([i \in 1..Len(es) |-> i], LAMBDA i : es[i] # "file")
    IN [j \in 1..Len(idx) |-> Join("root", idx[j])]

EnumeratedAnyway(err) == TRUE

\* Scan goes on after os.ReadDir: err == nil.
Enumerated(err) == ~err

\* os.ReadDir and the loop that keeps the directories.
ReadDir ==
    /\ spc = "start"
    /\ IF ~Enumerated(readErr)
       THEN /\ ret' = [projects |-> << >>, err |-> TRUE]
            /\ spc' = "returned"
            /\ UNCHANGED dirs
       ELSE /\ dirs' = Dirs(entries)
            /\ spc' = "spawn"
            /\ UNCHANGED ret
    /\ UNCHANGED <<entries, readErr, concurrency, sent, jobs, closed, workers, results,
                   errors, probeErr, uiVars, probeVars, callVars>>

CapOneLess(ds) == Max(0, Len(ds) - 1)

\* The capacity of jobs, results and errors: make(chan T, len(dirs))
Cap(ds) == Len(ds)

SpawnOneMore(started, n) == started <= n

\* The condition of the loop that starts the workers.
SpawnMore(started, n) == started < n

\* for i := 0; i < s.concurrency; i++ { go s.worker(...) }
Spawn ==
    /\ spc = "spawn"
    /\ IF SpawnMore(Len(workers), concurrency)
       THEN /\ workers' = Append(workers, [pc |-> "idle", dir |-> << >>])
            /\ UNCHANGED spc
       ELSE /\ spc' = "send"
            /\ UNCHANGED workers
    /\ UNCHANGED <<entries, readErr, concurrency, dirs, sent, jobs, closed, results, errors,
                   ret, probeErr, uiVars, probeVars, callVars>>

\* for _, dir := range dirs { jobs <- dir }; close(jobs)
Send ==
    /\ spc = "send"
    /\ IF sent < Len(dirs)
       THEN /\ Len(jobs) < Cap(dirs)
            /\ jobs' = Append(jobs, dirs[sent + 1])
            /\ sent' = sent + 1
            /\ UNCHANGED <<spc, closed>>
       ELSE /\ closed' = TRUE
            /\ spc' = "wait"
            /\ UNCHANGED <<jobs, sent>>
    /\ UNCHANGED <<entries, readErr, concurrency, dirs, workers, results, errors, ret,
                   probeErr, uiVars, probeVars, callVars>>

NotWaited(ws) == TRUE

\* wg.Wait() returns: every worker has run its deferred wg.Done()
AllDone(ws) == \A w \in DOMAIN ws : ws[w].pc = "done"

\* wg.Wait(), the two closes and the loops that drain results and errors.
Collect ==
    /\ spc = "wait"
    /\ AllDone(workers)
    /\ ret' = [projects |-> results, err |-> FALSE]
    /\ results' = << >>
    /\ errors' = << >>
    /\ spc' = "returned"
    /\ UNCHANGED <<entries, readErr, concurrency, dirs, sent, jobs, closed, workers,
                   probeErr, uiVars, probeVars, callVars>>

Peeked(q) == q

\* The channel after a receive has taken its first element.
Received(q) == Tail(q)

\* worker: for dir := range jobs
Recv(w) ==
    /\ workers[w].pc = "idle"
    /\ jobs # << >>
    /\ workers' = [workers EXCEPT ![w] = [pc |-> "stat", dir |-> Head(jobs)]]
    /\ jobs' = Received(jobs)
    /\ UNCHANGED <<entries, readErr, concurrency, spc, dirs, sent, closed, results, errors,
                   ret, probeErr, uiVars, probeVars, callVars>>

\* worker: the range loop ends on the closed, drained channel; defer wg.Done()
Exit(w) ==
    /\ workers[w].pc = "idle"
    /\ jobs = << >>
    /\ closed
    /\ workers' = [workers EXCEPT ![w] = [pc |-> "done", dir |-> << >>]]
    /\ UNCHANGED <<entries, readErr, concurrency, spc, dirs, sent, jobs, closed, results,
                   errors, ret, probeErr, uiVars, probeVars, callVars>>

HasGitEntry(kind) == kind \in {"repo", "gitfile"}

\* scanProject goes on to the probe: os.Stat succeeded and info.IsDir() holds.
IsRepo(kind) == kind = "repo"

\* scanProject up to the call of GetStatus: os.Stat of dir/.git
Stat(w) ==
    /\ workers[w].pc = "stat"
    /\ LET kind == KindOf(workers[w].dir) IN
       CASE IsRepo(kind) ->
                /\ workers' = [workers EXCEPT ![w].pc = "probe"]
                /\ UNCHANGED errors
         [] kind = "staterr" ->
                /\ Len(errors) < Cap(dirs)
                /\ errors' = Append(errors, workers[w].dir)
                /\ workers' = [workers EXCEPT ![w] = [pc |-> "idle", dir |-> << >>]]
         [] OTHER ->
                /\ workers' = [workers EXCEPT ![w] = [pc |-> "idle", dir |-> << >>]]
                /\ UNCHANGED errors
    /\ UNCHANGED <<entries, readErr, concurrency, spc, dirs, sent, jobs, closed, results,
                   ret, probeErr, uiVars, probeVars, callVars>>

ProjectUnlessFailed(dir, status) ==
    IF status.err THEN Nil
    ELSE [Name |-> Base(dir), Path |-> dir, Git |-> status.val]

\* scanProject from the call of GetStatus on: the Project it returns.
ProjectOf(dir, status) == [Name |-> Base(dir), Path |-> dir, Git |-> status.val]

\* GetStatus returns for the repository env; the worker emits the project.
ProbeDone(w, env) ==
    /\ workers[w].pc = "probe"
    /\ LET status == GetStatus(env)
           project == ProjectOf(workers[w].dir, status)
       IN
        /\ IF project # Nil
           THEN /\ Len(results) < Cap(dirs)
                /\ results' = Append(results, project)
           ELSE UNCHANGED results
        /\ probeErr' = IF status.err THEN probeErr \cup {workers[w].dir} ELSE probeErr
    /\ workers' = [workers EXCEPT ![w] = [pc |-> "idle", dir |-> << >>]]
    /\ UNCHANGED <<entries, readErr, concurrency, spc, dirs, sent, jobs, closed, errors,
                   ret, uiVars, probeVars, callVars>>

ScanNext ==
    \/ ReadDir
    \/ Spawn
    \/ Send
    \/ Collect
    \/ \E w \in DOMAIN workers : Recv(w)
    \/ \E w \in DOMAIN workers : Exit(w)
    \/ \E w \in DOMAIN workers : Stat(w)
    \/ \E w \in DOMAIN workers, env \in GitEnvs : ProbeDone(w, env)

ScanSpec == ScanInit /\ [][ScanNext]_vars

\* The two ways a probe returns: with an error (the branch query fails) or with
\* a status.
ReturningEnvs ==
    { Repo(Failed, Failed, Failed, Failed, Failed, Failed, 0),
      Repo(Out(<<"main">>), Failed, Out(<< >>), Failed, Failed, Out(LogLine), 0) }

ScanLiveNext ==
    \/ ReadDir
    \/ Spawn
    \/ Send
    \/ Collect
    \/ \E w \in DOMAIN workers : Recv(w)
    \/ \E w \in DOMAIN workers : Exit(w)
    \/ \E w \in DOMAIN workers : Stat(w)
    \/ \E w \in DOMAIN workers, env \in ReturningEnvs : ProbeDone(w, env)

\* Scan under a scheduler that lets a goroutine that can take a step take one,
\* with every probe returning.
ScanLiveSpec == ScanInit /\ [][ScanLiveNext]_vars /\ WF_vars(ScanLiveNext)

(***************************************************************************)
(* The scan command of the list screen run step by step beside the message *)
(* loop: the thunk of scanCmd calls Scan while the loop goes on handling    *)
(* keys, and the value the thunk returns comes back as a ScanCompleteMsg.   *)
(***************************************************************************)
ThunkKeys == {"j", "r"}

\* The roots the thunk's Scan reads: empty, two repositories, and a file beside
\* a repository and a directory whose .git cannot be examined.
ThunkRoots == { << >>, <<"repo", "repo">>, <<"file", "repo", "staterr">> }

\* The program before Run: the list screen holds its scanner, no scan has begun.
ThunkInit ==
    /\ UIInit
    /\ readErr \in BOOLEAN
    /\ entries \in (IF readErr THEN {<< >>} ELSE ThunkRoots)
    /\ concurrency \in {1, 2}
    /\ spc = "start"
    /\ dirs = << >>
    /\ sent = 0
    /\ jobs = << >>
    /\ closed = FALSE
    /\ workers = << >>
    /\ results = << >>
    /\ errors = << >>
    /\ ret = Nil
    /\ probeErr = {}
    /\ ProbeIdle
    /\ CallIdle

\* A thunk returned by scanCmd has been started by the runtime and its message
\* has not been handled yet.
ThunkRunning == BagIn(ScanCmd, pending)

DirectWrite(s, r) == [s EXCEPT !.projects = r.projects]

\* What the thunk does with the result of Scan: nothing but wrap it in the
\* message it returns, so the screen is as it was.
ThunkResult(s, r) == s

\* A goroutine of the thunk takes a step of Scan.
ThunkStep(step) ==
    /\ ThunkRunning
    /\ phase = "running"
    /\ step

\* s.scanner.Scan() returns inside the thunk, which returns the message.
ThunkReturn ==
    /\ ThunkRunning
    /\ phase = "running"
    /\ spc = "returned"
    /\ spc' = "message"
    /\ screens' = << ThunkResult(screens[1], ret) >>
    /\ UNCHANGED <<width, height, isDark, quitting, phase, pending, pushed, last, lastCmd>>
    /\ UNCHANGED <<entries, readErr, concurrency, dirs, sent, jobs, closed, workers,
                   results, errors, ret, probeErr, probeVars, callVars>>

\* The message loop hands the thunk's ScanCompleteMsg to Update; the locals of
\* that call of Scan are gone.
ThunkDeliver ==
    /\ ThunkRunning
    /\ phase = "running"
    /\ spc = "message"
    /\ LET r == ListUpdate(screens[1], ScanCompleteMsg(ret)) IN
        /\ screens' = << r.screen >>
        /\ lastCmd' = r.cmd
    /\ last' = "ScanCompleteMsg"
    /\ pending' = pending (-) SetToBag({ScanCmd})
    /\ spc' = "start"
    /\ dirs' = << >>
    /\ sent' = 0
    /\ jobs' = << >>
    /\ closed' = FALSE
    /\ workers' = << >>
    /\ results' = << >>
    /\ errors' = << >>
    /\ ret' = Nil
    /\ probeErr' = {}
    /\ UNCHANGED <<width, height, isDark, quitting, phase, pushed>>
    /\ UNCHANGED <<entries, readErr, concurrency, probeVars, callVars>>

ThunkNext ==
    \/ LInit
    \/ \E k \in ThunkKeys : LKey(k)
    \/ ThunkStep(ReadDir)
    \/ ThunkStep(Spawn)
    \/ ThunkStep(Send)
    \/ ThunkStep(Collect)
    \/ \E w \in DOMAIN workers : ThunkStep(Recv(w))
    \/ \E w \in DOMAIN workers : ThunkStep(Exit(w))
    \/ \E w \in DOMAIN workers : ThunkStep(Stat(w))
    \/ \E w \in DOMAIN workers, env \in ReturningEnvs : ThunkStep(ProbeDone(w, env))
    \/ ThunkReturn
    \/ ThunkDeliver

ThunkSpec == ThunkInit /\ [][ThunkNext]_vars

(***************************************************************************)
(* What the screens draw.  A rendered text is the sequence of its parts;   *)
(* styling adds no characters that the reader sees.  Durations and times    *)
(* are in whole seconds.                                                    *)
(***************************************************************************)
Minute == 60
Hour == 3600
Day == 24 * Hour
Week == 7 * Day

\* fmt.Sprintf("%d <unit>s ago", n) and its singular literal
Ago(n, unit) == [n |-> n, text |-> unit]

AlwaysPlural(n, one, many) == Ago(n, many)

\* if n == 1 { return "1 <unit> ago" }; return fmt.Sprintf("%d <unit>s ago", n)
Counted(n, one, many) == IF n = 1 THEN Ago(1, one) ELSE Ago(n, many)

\* formatTimeAgo with time.Since(t) = now - t
formatTimeAgo(t, now) ==
    LET d == now - t.unix IN
    CASE d < Minute -> Ago(0, "just now")
      [] d >= Minute /\ d < Hour -> Counted(d \div Minute, "min ago", "mins ago")
      [] d >= Hour /\ d < Day -> Counted(d \div Hour, "hour ago", "hours ago")
      [] d >= Day /\ d < Week -> Counted((d \div Hour) \div 24, "day ago", "days ago")
      [] OTHER -> Counted(((d \div Hour) \div 24) \div 7, "week ago", "weeks ago")

(***************************************************************************)
(* formatTimeAgo called as a unit, on commit times whose age lies within   *)
(* a second of a multiple of a second, minute, hour, day or week.          *)
(***************************************************************************)
MaxUnits == 60

CommitEpoch == 100

Elapsed ==
    { k * u + e : k \in 0..MaxUnits, u \in {1, Minute, Hour, Day, Week}, e \in {-1, 0, 1} }

TimeAgoInit ==
    /\ UIInit
    /\ ScanIdle
    /\ ProbeIdle
    /\ arg \in { [t |-> Unix(CommitEpoch), now |-> CommitEpoch + d] : d \in Elapsed }
    /\ out = Nil

CallFormatTimeAgo ==
    /\ out = Nil
    /\ out' = [val |-> formatTimeAgo(arg.t, arg.now)]
    /\ UNCHANGED <<arg, uiVars, scanVars, probeVars>>

TimeAgoNext ==
    \/ CallFormatTimeAgo

TimeAgoSpec == TimeAgoInit /\ [][TimeAgoNext]_vars

(***************************************************************************)
(* A list row and the lines of the detail view.  A commit subject is the   *)
(* sequence of its characters, "é" standing for every character that       *)
(* takes two bytes in UTF-8; a shown text is the sequence of its bytes.     *)
(***************************************************************************)
SubjectLimit == 30
SubjectKept == 27

\* The bytes of one character: its position among them tells a first byte
\* from a continuation byte.
ByteLen(c) == IF c \in TwoByteKeys THEN 2 ELSE 1
BytesOf(c) == [i \in 1..ByteLen(c) |-> [of |-> c, at |-> i]]

\* A Go string: the UTF-8 bytes of the characters, in order.
RECURSIVE Bytes(_)
Bytes(chars) == IF chars = << >> THEN << >> ELSE BytesOf(Head(chars)) \o Bytes(Tail(chars))

\* msg[:27] + "..."
Cut(bytes) == SubSeq(bytes, 1, SubjectKept) \o Bytes(<<".", ".", ".">>)

\* if len(msg) > 30 { msg = msg[:27] + "..." }
Shorten(bytes) == IF Len(bytes) > SubjectLimit THEN Cut(bytes) ELSE bytes

\* `"` + msg + `"`
Quoted(bytes) == Bytes(<<"\"">>) \o bytes \o Bytes(<<"\"">>)

\* A glyph outside Latin-1 is written as its code point.
Glyph(g) == [glyph |-> g, count |-> << >>]
\* fmt.Sprintf("<glyph>%d", n)
GlyphCount(g, n) == [glyph |-> g, count |-> <<n>>]

\* The switch on g.Status.
StatusGlyph(status) ==
    CASE status = StatusClean -> << Glyph("U+2713") >>
      [] status = StatusDirty -> << Glyph("U+25CF") >>
      [] status = StatusAhead -> << Glyph("U+2191") >>
      [] status = StatusBehind -> << Glyph("U+2193") >>
      [] status = StatusDiverged -> << Glyph("U+26A0") >>
      [] status = StatusNoRemote -> << Glyph("U+25CB") >>
      [] OTHER -> << >>

ShownFromZero(n) == n >= 0

\* The test of each count in formatGitStatus.
Shown(n) == n > 0

formatGitStatus(g) ==
    StatusGlyph(g.Status)
        \o (IF Shown(g.Uncommitted) THEN << GlyphCount("±", g.Uncommitted) >> ELSE << >>)
        \o (IF Shown(g.Unpushed) THEN << GlyphCount("U+2191", g.Unpushed) >> ELSE << >>)
        \o (IF Shown(g.Unpulled) THEN << GlyphCount("U+2193", g.Unpulled) >> ELSE << >>)

NeverZero(t) == FALSE

\* time.Time.IsZero
IsZero(t) == t.zero

Seg(kind, text) == [seg |-> kind, text |-> text]

\* renderProjectLine at the time `now`: the parts it joins with spaces.
renderProjectLine(p, selected, now) ==
    << Seg("cursor", IF selected THEN "U+25B8" ELSE " "), Seg("name", p.Name) >>
        \o (IF p.Git.Branch # "" THEN << Seg("branch", <<"[", p.Git.Branch, "]">>) >> ELSE << >>)
        \o (IF formatGitStatus(p.Git) # << >>
            THEN << Seg("status", formatGitStatus(p.Git)) >> ELSE << >>)
        \o (IF p.Git.LastCommitMsg # << >>
            THEN << Seg("subject", Quoted(Shorten(Bytes(p.Git.LastCommitMsg)))) >> ELSE << >>)
        \o (IF ~IsZero(p.Git.LastCommitTime)
            THEN << Seg("age", formatTimeAgo(p.Git.LastCommitTime, now)) >> ELSE << >>)

Line(label, value) == [label |-> label, value |-> value]

\* ProjectDetailScreen.View once ready: the lines between header and help.
DetailLines(p) ==
    << Line("Title", p.Name), Line("", ""), Line("Path", p.Path) >>
        \o (IF p.Language # "" THEN << Line("Language", p.Language) >> ELSE << >>)
        \o << Line("", ""), Line("Git Status", ""), Line("Branch", p.Git.Branch) >>
        \o << Line("Remote", IF p.Git.Remote # "" THEN p.Git.Remote ELSE "(none)") >>
        \o (IF p.Git.Uncommitted > 0 THEN << Line("Uncommitted", p.Git.Uncommitted) >> ELSE << >>)
        \o (IF p.Git.Unpushed > 0 THEN << Line("Unpushed", p.Git.Unpushed) >> ELSE << >>)
        \o (IF p.Git.Unpulled > 0 THEN << Line("Unpulled", p.Git.Unpulled) >> ELSE << >>)
        \o (IF p.Git.LastCommitMsg # << >>
            THEN << Line("Last commit", p.Git.LastCommitMsg) >>
                     \o (IF p.Git.LastCommitAuthor # ""
                         THEN << Line("Author", p.Git.LastCommitAuthor) >> ELSE << >>)
            ELSE << >>)

(***************************************************************************)
(* The two views called as a unit on one project: with every status kind   *)
(* and count, with subjects of one- and two-byte characters around the     *)
(* limit, and with the branch, remote and last-commit fields set or zero.  *)
(***************************************************************************)
MaxCount == 2
MaxSubject == 32

Rep(c, n) == [i \in 1..n |-> c]

\* Subjects: a run of "a", a run of "é", a run of "a".
Subjects ==
    { Rep("a", i) \o Rep("é", j) \o Rep("a", k) :
        i \in 0..MaxSubject, j \in 0..MaxSubject, k \in {0, 1, 2, 5} }

ShortSubject == <<"a", "a">>

Commits ==
    { [msg |-> << >>, author |-> "", t |-> ZeroTime] }
        \cup { [msg |-> m, author |-> a, t |-> Unix(CommitEpoch)] :
                  m \in {<< >>, ShortSubject}, a \in {"", "ann"} }

ViewStatuses ==
    { [Branch |-> "main", Remote |-> "origin/main", Uncommitted |-> u, Unpushed |-> a,
       Unpulled |-> b, LastCommitMsg |-> ShortSubject, LastCommitTime |-> Unix(CommitEpoch),
       LastCommitAuthor |-> "ann", Status |-> st] :
          u \in 0..MaxCount, a \in 0..MaxCount, b \in 0..MaxCount,
          st \in StatusClean..StatusNoRemote }
    \cup
    { [Branch |-> "main", Remote |-> "", Uncommitted |-> 0, Unpushed |-> 0,
       Unpulled |-> 0, LastCommitMsg |-> m, LastCommitTime |-> Unix(CommitEpoch),
       LastCommitAuthor |-> "ann", Status |-> StatusNoRemote] :
          m \in { x \in Subjects : Len(Bytes(x)) <= MaxSubject } }
    \cup
    { [Branch |-> br, Remote |-> re, Uncommitted |-> 0, Unpushed |-> 0,
       Unpulled |-> 0, LastCommitMsg |-> c.msg, LastCommitTime |-> c.t,
       LastCommitAuthor |-> c.author, Status |-> IF re = "" THEN StatusNoRemote ELSE StatusClean] :
          br \in {"", "main"}, re \in {"", "origin/main"}, c \in Commits }

ViewInit ==
    /\ UIInit
    /\ ScanIdle
    /\ ProbeIdle
    /\ arg \in { [project |-> [Name |-> "api", Path |-> <<"root", 1>>, Language |-> "",
                               Git |-> g],
                  selected |-> sel, now |-> CommitEpoch + d] :
                    g \in ViewStatuses, sel \in BOOLEAN, d \in {30, 2 * Hour} }
    /\ out = Nil

\* View of the list screen draws the row; View of the detail screen draws the
\* same project.
CallViews ==
    /\ out = Nil
    /\ out' = [row |-> renderProjectLine(arg.project, arg.selected, arg.now),
               detail |-> DetailLines(arg.project)]
    /\ UNCHANGED <<arg, uiVars, scanVars, probeVars>>

ViewNext ==
    \/ CallViews

ViewSpec == ViewInit /\ [][ViewNext]_vars

(***************************************************************************)
(* Properties of the router and the screens.                               *)
(***************************************************************************)
ListScreens(stk) == { i \in DOMAIN stk : stk[i].kind = "list" }

\* C1: in every reachable state of the list screen, selectedIdx lies in
\* [0, max(0, len(filteredProjects()) - 1)], also after filter characters that
\* shrink the filtered list.
C1_SelectionInRange ==
    \A i \in ListScreens(screens) :
        /\ 0 <= screens[i].selectedIdx
        /\ screens[i].selectedIdx <= Max(0, Len(filteredProjects(screens[i])) - 1)

\* C2: every ScanCompleteMsg of a scan command the list screen dispatched is
\* observed by the list screen's Update (which clears scanning), whatever the
\* stack looks like when the completion arrives.
C2_ScanCompleteObserved ==
    [][ CopiesIn(ScanCmd, pending') < CopiesIn(ScanCmd, pending)
            => \A i \in ListScreens(screens') : ~screens'[i].scanning ]_vars

\* C4: the router's screen stack is never empty.
C4_StackNonEmpty == Len(screens) >= 1

\* A PopMsg has just popped back to the root while another PopMsg is still queued.
C4_PopQueuedAtRoot ==
    /\ last = "PopMsg"
    /\ Len(screens) = 1
    /\ BagIn(PopCmd, pending)

\* C6: at most one scan command is in flight, and while one is in flight the
\* list screen that dispatched it has scanning set.
C6_OneScanInFlight ==
    /\ CopiesIn(ScanCmd, pending) <= 1
    /\ CopiesIn(ScanCmd, pending) = 1 => \A i \in ListScreens(screens) : screens[i].scanning

\* The refresh key has dispatched a second scan after the first one completed.
C6_Refreshed ==
    /\ last = "KeyPressMsg"
    /\ Len(screens) = 1
    /\ screens[1].kind = "list"
    /\ screens[1].projects # << >>
    /\ screens[1].scanning
    /\ CopiesIn(ScanCmd, pending) = 1

\* C8: every screen of the stack has IsDark equal to the router's isDark.
C8_StackThemed == \A i \in DOMAIN screens : screens[i].IsDark = isDark

\* A screen built under the light theme was pushed after the background turned
\* dark, and another such screen is still queued.
C8_PushedAfterThemeChange ==
    /\ last = "PushMsg"
    /\ isDark
    /\ Len(screens) = 2
    /\ \E m \in BagToSet(pending) : m.type = "PushMsg" /\ ~m.Screen.IsDark

\* The stack `before` with the given screen fields of its top replaced.
Resized(before, w, h) ==
    [before EXCEPT ![Len(before)] = [@ EXCEPT !.Width = w, !.Height = h]]

\* C9 as stated: a PopMsg that pops restores the stack as it was before the
\* push, except for the width and height of the re-exposed screen.
C9_PopRestoresStack ==
    [][ last' = "PopMsg" => screens' = Resized(pushed[Len(pushed)], width, height) ]_vars

\* C9 amended: ... except that the re-exposed screen has the router's width and
\* height and is ready, and every screen has the router's current isDark.
C9_PopRestoresStackThemed ==
    [][ last' = "PopMsg" =>
            LET before == pushed[Len(pushed)] IN
            /\ Len(screens') = Len(before)
            /\ \A i \in DOMAIN before :
                  screens'[i] =
                      IF i = Len(before)
                      THEN [before[i] EXCEPT !.Width = width, !.Height = height,
                                             !.ready = TRUE, !.IsDark = isDark]
                      ELSE [before[i] EXCEPT !.IsDark = isDark] ]_vars

\* A pop has re-exposed the list screen after the terminal was resized and
\* re-themed.
C9_PoppedAfterResize ==
    /\ last = "PopMsg"
    /\ Len(screens) = 1
    /\ width = 80
    /\ isDark
    /\ screens[1].projects # << >>

\* C10: a screen whose width or height is zero renders exactly "Loading...".
C10_LoadingWhenUnsized ==
    \A i \in DOMAIN screens :
        (screens[i].Width = 0 \/ screens[i].Height = 0) => View(screens[i]) = "Loading..."

\* C11: a key press equal to ctrl+c sets quitting, returns the quit command and
\* leaves every screen as it was, in normal and in filter mode alike; quitting,
\* once set, is never cleared, and while it is set Model.View has empty content.
C11_InterruptQuits ==
    /\ [][ last' = "KeyPressMsg ctrl+c" =>
              /\ quitting'
              /\ screens' = screens
              /\ pending' = pending (+) SetToBag({QuitCmd}) ]_vars
    /\ [][ quitting => quitting' ]_vars
    /\ [](quitting => ModelView(quitting, screens) = "")

\* The interrupt was pressed while the list screen was in filter mode with text
\* typed and a scan still in flight.
C11_InterruptedInFilterMode ==
    /\ last = "KeyPressMsg ctrl+c"
    /\ quitting
    /\ Len(screens) = 1
    /\ screens[1].filtering
    /\ screens[1].filterText # << >>
    /\ BagIn(ScanCmd, pending)

\* C12: once quitting is set, a ScanCompleteMsg delivered to the router changes
\* neither the router's fields nor any screen.
C12_ResultIgnoredAfterQuit ==
    [][ (quitting /\ last' = "ScanCompleteMsg") =>
            UNCHANGED <<screens, width, height, isDark, quitting>> ]_vars

\* C13 as stated: pressing "r" on the list screen while scanning is set leaves
\* the whole list screen unchanged and returns no command.
C13_RefreshWhileScanning ==
    [][ (screens[1].scanning /\ last' = "r") =>
            (screens' = screens /\ lastCmd' = Nil) ]_vars

\* C13 amended: pressing "r" on the list screen in normal mode while scanning is
\* set leaves the whole list screen unchanged and returns no command.
C13_RefreshWhileScanningNormalMode ==
    [][ (screens[1].scanning /\ ~screens[1].filtering /\ last' = "r") =>
            (screens' = screens /\ lastCmd' = Nil) ]_vars

\* "r" was pressed in normal mode during a refresh scan, with projects listed,
\* the cursor moved and a filter retained.
C13_RefreshPressedDuringScan ==
    /\ last = "r"
    /\ lastCmd = Nil
    /\ screens[1].scanning
    /\ ~screens[1].filtering
    /\ screens[1].projects # << >>
    /\ screens[1].selectedIdx > 0
    /\ screens[1].filterText # << >>

RECURSIVE Typed(_, _)
Typed(s, ks) ==
    IF ks = << >> THEN s
    ELSE Typed(ListUpdate(s, KeyPressMsg(Head(ks))).screen, Tail(ks))

\* The list screen after n presses of Backspace.
RECURSIVE Erased(_, _)
Erased(s, n) ==
    IF n = 0 THEN s
    ELSE Erased(ListUpdate(s, KeyPressMsg("backspace")).screen, n - 1)

\* C21: from every filter-mode state with nothing typed, any sequence ks of
\* single-character keys followed by Len(ks) presses of Backspace gives an empty
\* filterText and a filtered list equal to the project list; Backspace with an
\* empty filterText changes nothing and returns no command.
C21_TypeThenErase ==
    \A i \in ListScreens(screens) :
        (screens[i].filtering /\ screens[i].filterText = << >>) =>
            /\ \A ks \in SeqsUpTo(CharacterKeys, MaxFilterLen) :
                  LET e == Erased(Typed(screens[i], ks), Len(ks)) IN
                  /\ e.filterText = << >>
                  /\ filteredProjects(e) = e.projects
            /\ ListUpdate(screens[i], KeyPressMsg("backspace")) = Ret(screens[i], Nil)

\* Backspace has emptied the filter text of a list of three projects again.
C21_ErasedToEmpty ==
    /\ last = "backspace"
    /\ screens[1].filtering
    /\ screens[1].filterText = << >>
    /\ Len(screens[1].projects) = 3
    /\ filteredProjects(screens[1]) = screens[1].projects

\* C22 as stated: from every normal-mode state, "/" followed by Escape gives the
\* list screen as it was before "/", filter text included.
C22_ToggleIsIdentity ==
    \A i \in ListScreens(screens) :
        ~screens[i].filtering => Typed(screens[i], <<"/", "esc">>) = screens[i]

\* C22 amended: from every normal-mode state, "/" followed by Escape gives the
\* list screen as it was before "/" except that filterText is empty, and neither
\* key returns a command.
C22_ToggleClearsFilterOnly ==
    \A i \in ListScreens(screens) :
        ~screens[i].filtering =>
            LET opened == ListUpdate(screens[i], KeyPressMsg("/"))
                left == ListUpdate(opened.screen, KeyPressMsg("esc"))
            IN
            /\ opened.cmd = Nil
            /\ left.cmd = Nil
            /\ left.screen = [screens[i] EXCEPT !.filterText = << >>]

\* Escape has left filter mode on a list of three projects with the cursor on
\* the second row.
C22_LeftFilterByEscape ==
    /\ last = "esc"
    /\ lastCmd = Nil
    /\ ~screens[1].filtering
    /\ screens[1].filterText = << >>
    /\ Len(screens[1].projects) = 3
    /\ screens[1].selectedIdx = 1

\* C23: a PopMsg delivered with more than one screen on the stack removes the
\* top screen, gives the screen below it the router's width and height through
\* one window-size event and leaves every other screen alone; delivered with one
\* screen it changes neither the router nor the screen; it returns no command
\* in either case.
C23_PopDropsTopOrNothing ==
    [][ CopiesIn(PopCmd, pending') < CopiesIn(PopCmd, pending) =>
            /\ pending' = pending (-) SetToBag({PopCmd})
            /\ UNCHANGED <<width, height, isDark, quitting>>
            /\ IF Len(screens) > 1
               THEN /\ Len(screens') = Len(screens) - 1
                    /\ \A i \in 1..(Len(screens) - 2) : screens'[i] = screens[i]
                    /\ screens'[Len(screens')] =
                          [screens[Len(screens) - 1] EXCEPT !.Width = width,
                                                           !.Height = height,
                                                           !.ready = TRUE]
               ELSE UNCHANGED screens ]_vars

\* A detail screen has been popped off the list screen after the terminal grew.
C23_PoppedToResizedRoot ==
    /\ last = "PopMsg"
    /\ Len(screens) = 1
    /\ width = 80
    /\ screens[1].kind = "list"
    /\ screens[1].Width = 80
    /\ screens[1].scanning

C25_TwoModeTable ==
    [][ last' \in ListKeys =>
            LET s == screens[1]
                t == screens'[1]
                k == last'
            IN
            CASE ~s.filtering /\ k = "/" -> t.filtering /\ t.filterText = << >>
              [] s.filtering /\ k = "esc" -> ~t.filtering /\ t.filterText = << >>
              [] s.filtering /\ k = "enter" -> ~t.filtering /\ t.filterText = s.filterText
              [] s.filtering /\ k \in CharacterKeys ->
                    t.filtering /\ t.filterText = Append(s.filterText, k)
              [] OTHER -> t.filtering = s.filtering ]_vars

\* C26: a key pressed while filtering is set returns no command, so it starts
\* no scan and pushes or pops no screen, and it changes neither projects,
\* scanning, the help toggle nor the cursor.
C26_FilterModeConsumesKeys ==
    [][ (screens[1].filtering /\ last' \in ListKeys) =>
            /\ lastCmd' = Nil
            /\ pending' = pending
            /\ screens'[1].projects = screens[1].projects
            /\ screens'[1].scanning = screens[1].scanning
            /\ screens'[1].ShowAll = screens[1].ShowAll
            /\ screens'[1].selectedIdx = screens[1].selectedIdx ]_vars

\* "r" was typed into the filter of an idle list of projects: no scan started.
C26_RefreshKeyTyped ==
    /\ last = "r"
    /\ lastCmd = Nil
    /\ screens[1].filtering
    /\ screens[1].filterText = <<"r">>
    /\ ~screens[1].scanning
    /\ screens[1].projects # << >>
    /\ pending = EmptyBag

\* The letters that differ in case only.
CasePairs == { <<"A", "a">>, <<"B", "b">>, <<"E", "e">>, <<"G", "g">>, <<"T", "t">> }
SameLetter(a, b) == a = b \/ <<a, b>> \in CasePairs \/ <<b, a>> \in CasePairs

\* text occurs in name, case ignored.
Matches(name, text) ==
    \E off \in 0..(Len(name) - Len(text)) :
        \A j \in 1..Len(text) : SameLetter(name[off + j], text[j])

\* C27: filteredProjects returns the project list itself for an empty filter
\* text and otherwise the projects whose name contains the filter text, case
\* ignored, each once and in the order of the list; the call leaves the
\* screen's projects as they were.
C27_FilteredRows ==
    out # Nil =>
        IF arg.filterText = << >>
        THEN out.val = arg.projects
        ELSE LET hits == { i \in DOMAIN arg.projects :
                             Matches(arg.projects[i].Name, arg.filterText) }
             IN /\ Len(out.val) = Cardinality(hits)
                /\ \A i \in hits :
                      out.val[Cardinality({ j \in hits : j < i }) + 1] = arg.projects[i]

\* The filter "Et" has selected Beta, and nothing else, from alpha, Beta, gamma.
C27_MixedCaseFilterApplied ==
    /\ out = [val |-> << Project(Beta) >>]
    /\ arg.projects = << Project(alpha), Project(Beta), Project(gamma) >>
    /\ arg.filterText = <<"E", "t">>

\* C28: in normal mode Up or "k" decrements selectedIdx unless it is 0, Down or
\* "j" increments it unless it is len(filtered)-1 or the filtered list is empty;
\* neither key takes the selection out of the filtered list, and no other field
\* of the list screen changes.
C28_CursorKeys ==
    [][ (~screens[1].filtering /\ last' \in {"up", "k", "down", "j"}) =>
            LET s == screens[1]
                t == screens'[1]
                rows == Len(filteredProjects(s))
            IN
            /\ last' \in {"up", "k"} =>
                  t.selectedIdx = IF s.selectedIdx = 0 THEN 0 ELSE s.selectedIdx - 1
            /\ last' \in {"down", "j"} =>
                  t.selectedIdx = IF rows = 0 \/ s.selectedIdx = rows - 1
                                  THEN s.selectedIdx
                                  ELSE s.selectedIdx + 1
            /\ s.selectedIdx <= Max(0, rows - 1) =>
                  (0 <= t.selectedIdx /\ t.selectedIdx <= Max(0, rows - 1))
            /\ t = [s EXCEPT !.selectedIdx = t.selectedIdx]
            /\ lastCmd' = Nil ]_vars

\* C29: Enter in normal mode returns one push command whose detail screen holds
\* the project at position selectedIdx of the filtered list, and no command when
\* no row is under the cursor; the pushed detail screen holds the project of
\* the command, and no later step changes the project of a detail screen on the
\* stack.
C29_EnterPushesRowUnderCursor ==
    [][ /\ (KeyPress("enter") /\ Top(screens).kind = "list" /\ ~Top(screens).filtering) =>
            LET s == Top(screens)
                rows == filteredProjects(s)
            IN
            IF rows # << >> /\ s.selectedIdx < Len(rows)
            THEN \E m \in BagToSet(pending') :
                    /\ pending' = pending (+) SetToBag({m})
                    /\ m.type = "PushMsg"
                    /\ m.Screen.kind = "detail"
                    /\ m.Screen.project = rows[s.selectedIdx + 1]
            ELSE pending' = pending
        /\ last' = "PushMsg" =>
            \E m \in BagToSet(pending) :
                /\ m.type = "PushMsg"
                /\ pending' (+) SetToBag({m}) = pending
                /\ Top(screens').kind = "detail"
                /\ Top(screens').project = m.Screen.project
        /\ \A i \in DOMAIN screens :
                screens[i].kind = "detail" =>
                    /\ i \in DOMAIN screens'
                    /\ screens'[i].kind = "detail"
                    /\ screens'[i].project = screens[i].project ]_vars

\* A detail screen opened from a filtered list, holding a project that is not at
\* the cursor's index of the unfiltered list, after a scan result arrived.
C29_DetailOutlivesScan ==
    /\ Len(screens) = 2
    /\ screens[1].kind = "list"
    /\ screens[2].kind = "detail"
    /\ screens[1].filterText # << >>
    /\ Len(screens[1].projects) > screens[1].selectedIdx
    /\ screens[2].project # screens[1].projects[screens[1].selectedIdx + 1]
    /\ last = "ScanCompleteMsg"

Forwarded == {"KeyPressMsg", "KeyPressMsg ctrl+c", "WindowSizeMsg", "BackgroundColorMsg",
              "ScanCompleteMsg"}

\* C30: a key press, a window-size event, a background-colour message or a scan
\* result leaves the stack as long as it was and every screen below the top as
\* it was, except that a background-colour message sets the theme of the
\* lower screens.
C30_OnlyTopConsumes ==
    [][ last' \in Forwarded =>
            /\ Len(screens') = Len(screens)
            /\ \A i \in 1..(Len(screens) - 1) :
                    screens'[i] = IF last' = "BackgroundColorMsg"
                                  THEN [screens[i] EXCEPT !.IsDark = isDark']
                                  ELSE screens[i] ]_vars

\* A window-size event has reached the detail screen on top and not the list
\* screen below it.
C30_TopResizedAlone ==
    /\ Len(screens) = 2
    /\ last = "WindowSizeMsg"
    /\ screens[2].Width = width /\ screens[2].Height = height
    /\ screens[1].Width # width
    /\ ~screens[1].ready

\* C31: a ReplaceMsg leaves the stack as deep as it was and every screen below
\* the top as it was, and puts on top the new screen after Init, SetTheme with
\* the router's isDark and a window-size event with the router's width and
\* height, as a push would have prepared it.
C31_ReplaceOverwritesTop ==
    [][ last' = "ReplaceMsg" =>
            /\ Len(screens') = Len(screens)
            /\ \A i \in 1..(Len(screens) - 1) : screens'[i] = screens[i]
            /\ \E s \in ReplaceScreens :
                    Top(screens') = [s EXCEPT !.IsDark = isDark, !.Width = width,
                                             !.Height = height, !.ready = TRUE]
            /\ pending' = pending ]_vars

\* A detail screen on a list screen has been replaced in a dark, sized router.
C31_ReplacedAboveRoot ==
    /\ last = "ReplaceMsg"
    /\ Len(screens) = 2
    /\ screens[1].kind = "list"
    /\ isDark /\ width = 80
    /\ Top(screens).IsDark /\ Top(screens).Width = 80 /\ Top(screens).ready

\* C32: in every state of the router the active screen's stored Width and Height
\* are the router's width and height.
C32_ActiveScreenSized ==
    Len(screens) > 0 =>
        /\ Top(screens).Width = width
        /\ Top(screens).Height = height

(***************************************************************************)
(* Properties of the Scanner and the probe.                                *)
(***************************************************************************)
\* The derivation table of StatusKind, first match wins.
Derived(g) ==
    IF g.Remote = "" THEN (IF g.Uncommitted = 0 THEN StatusNoRemote ELSE StatusDirty)
    ELSE IF g.Uncommitted > 0 THEN StatusDirty
    ELSE IF g.Unpushed > 0 /\ g.Unpulled > 0 THEN StatusDiverged
    ELSE IF g.Unpushed > 0 THEN StatusAhead
    ELSE IF g.Unpulled > 0 THEN StatusBehind
    ELSE StatusClean

\* C3: for every Project of a scan result, Git.Status is the value the ordered
\* derivation gives for its remote, uncommitted, unpushed and unpulled.
C3_StatusMatchesDerivation ==
    spc = "returned" =>
        \A i \in DOMAIN ret.projects :
            ret.projects[i].Git.Status = Derived(ret.projects[i].Git)

Probing == { w \in DOMAIN workers : workers[w].pc = "probe" }

\* C5: the number of GetStatus calls in progress never exceeds the concurrency.
C5_ProbesBounded == Cardinality(Probing) <= concurrency

\* As many probes as workers are in progress while a further candidate waits.
C5_AllWorkersProbing ==
    /\ concurrency = 2
    /\ Cardinality(Probing) = 2
    /\ jobs # << >>

\* C7: when Scan returns after enumerating the root, its error is nil and every
\* child directory whose .git is a directory is in the result, with zero-valued
\* Git fields if its probe returned an error.
C7_ProbeFailureKeepsRepo ==
    (spc = "returned" /\ ~readErr) =>
        /\ ~ret.err
        /\ \A i \in DOMAIN entries :
              entries[i] = "repo" =>
                  \E j \in DOMAIN ret.projects :
                      /\ ret.projects[j].Path = Join("root", i)
                      /\ ret.projects[j].Path \in probeErr =>
                            ret.projects[j].Git = ZeroGitStatus

\* Scan has returned a repository whose probe failed next to one whose probe succeeded.
C7_FailedProbeReturned ==
    /\ spc = "returned"
    /\ \E j \in DOMAIN ret.projects : ret.projects[j].Path \in probeErr
    /\ \E j \in DOMAIN ret.projects : ret.projects[j].Path \notin probeErr

\* What the repository answers once no deadline cuts the queries short.
Unhurried(env) == [env EXCEPT !.hang = 0]

\* C14: in a probe that returns a status, every uncommitted, unpushed, unpulled
\* and last-commit query that the repository would answer populates its field,
\* whichever earlier query of the probe failed or timed out.
C14_LaterQueriesAnswered ==
    (got # Nil /\ ~got.err) =>
        LET env == Unhurried(repo)
            g == got.val
        IN
        /\ ~getUncommitted(env).err => g.Uncommitted = getUncommitted(env).val
        /\ (g.Remote # "" /\ ~getUnpushed(env).err) => g.Unpushed = getUnpushed(env).val
        /\ (g.Remote # "" /\ ~getUnpulled(env).err) => g.Unpulled = getUnpulled(env).val
        /\ ~getLastCommit(env).err =>
              /\ g.LastCommitMsg = getLastCommit(env).val.msg
              /\ g.LastCommitAuthor = getLastCommit(env).val.author
              /\ g.LastCommitTime = getLastCommit(env).val.t

\* The outputs among the answers that do not parse: a count that is no number; a
\* log line of fewer than three pieces or with a timestamp that is no number.
MalformedCounts == { Out(<<"x">>) }
MalformedLogs == { Out(<< <<"init">> >>), Out(<< <<"init", "ann", "x">> >>) }

\* Query q of the probe of repo failed: non-zero exit, deadline, or parse failure.
QueryFailed(q) ==
    \/ runGit(repo, q).fail
    \/ q \in {"ahead", "behind"} /\ runGit(repo, q) \in MalformedCounts
    \/ q = "log" /\ runGit(repo, q) \in MalformedLogs

\* C15: GetStatus returns an error exactly when the branch query fails; when it
\* returns none, Branch is the branch query's output and every other query that
\* failed has left its field at the zero value.
C15_ErrorOnlyFromBranch ==
    got # Nil =>
        /\ got.err <=> QueryFailed("branch")
        /\ ~got.err =>
              LET g == got.val IN
              /\ g.Branch = "main"
              /\ QueryFailed("upstream") => g.Remote = ""
              /\ QueryFailed("porcelain") => g.Uncommitted = 0
              /\ QueryFailed("ahead") => g.Unpushed = 0
              /\ QueryFailed("behind") => g.Unpulled = 0
              /\ QueryFailed("log") =>
                    /\ g.LastCommitMsg = ""
                    /\ g.LastCommitAuthor = ""
                    /\ g.LastCommitTime = ZeroTime

\* A probe has returned a status with the branch set although the porcelain
\* query exited non-zero, the ahead count did not parse and the log line had a
\* bad timestamp, next to a behind count that was read.
C15_PartialStatusReturned ==
    /\ got # Nil
    /\ ~got.err
    /\ got.val.Branch = "main"
    /\ got.val.Remote = "origin/main"
    /\ repo.porcelain = Failed
    /\ repo.ahead = Out(<<"x">>)
    /\ repo.log = Out(<< <<"init", "ann", "x">> >>)
    /\ got.val.Unpulled = 2

\* C16: every GitStatus the probe returns with an empty remote has unpushed and
\* unpulled zero, and the probe that produced it ran neither the unpushed nor
\* the unpulled query.
C16_NoRemoteNoCounts ==
    (got # Nil /\ got.val.Remote = "") =>
        /\ got.val.Unpushed = 0
        /\ got.val.Unpulled = 0
        /\ \A i \in DOMAIN got.ran : got.ran[i] \notin {"ahead", "behind"}

\* A probe has returned an empty remote from an upstream query that succeeded
\* with empty output, in a repository that would report two commits ahead and
\* two behind.
C16_EmptyRemoteWithCounts ==
    /\ got # Nil
    /\ ~got.err
    /\ got.val.Remote = ""
    /\ repo.upstream = Out(<< >>)
    /\ repo.ahead = Out(<<"2">>)
    /\ repo.behind = Out(<<"2">>)
    /\ repo.hang = 0

\* C17: every Project of a Scan result has the path of a direct child of the
\* root that is a directory whose .git entry is a directory; no child that is a
\* file, lacks .git or has a regular file as .git is in the result.
C17_OnlyGitDirectories ==
    spc = "returned" =>
        \A j \in DOMAIN ret.projects :
            \E i \in DOMAIN entries :
                /\ ret.projects[j].Path = Join("root", i)
                /\ entries[i] = "repo"

\* Scan has returned one project from a root that also holds a plain file and a
\* directory whose .git is a regular file.
C17_MixedRootScanned ==
    /\ spc = "returned"
    /\ Len(ret.projects) = 1
    /\ \E i \in DOMAIN entries : entries[i] = "file"
    /\ \E i \in DOMAIN entries : entries[i] = "gitfile"

\* The paths Scan holds anywhere: queued, with a worker, emitted or returned.
Held ==
    LET busy == SelectSeq(workers, LAMBDA w : w.pc \in {"stat", "probe"}) IN
    jobs \o [i \in DOMAIN busy |-> busy[i].dir]
         \o [i \in DOMAIN results |-> results[i].Path]
         \o errors
         \o (IF spc = "returned" THEN [i \in DOMAIN ret.projects |-> ret.projects[i].Path]
                                 ELSE << >>)

\* C18: no path is held twice at any time, whether queued, with a worker,
\* emitted or returned: each candidate is taken by one worker and probed once,
\* and no Project path appears twice in the list Scan returns.
C18_PathsUnique ==
    \A i, j \in DOMAIN Held : Held[i] = Held[j] => i = j

\* Scan has returned three projects that two workers probed.
C18_ThreeProjectsTwoWorkers ==
    /\ spc = "returned"
    /\ concurrency = 2
    /\ Len(ret.projects) = 3

\* C19: when os.ReadDir of the root fails, no worker is ever started and Scan
\* returns an empty list with an error; when the root is enumerable and has no
\* children, Scan returns an empty list with a nil error.
C19_RootErrorAndEmptyRoot ==
    /\ readErr =>
          /\ workers = << >>
          /\ probeErr = {}
          /\ spc = "returned" => (ret.err /\ ret.projects = << >>)
    /\ (~readErr /\ entries = << >> /\ spc = "returned") =>
          (~ret.err /\ ret.projects = << >>)

\* Scan has returned from a root that could not be enumerated.
C19_RootErrorReturned ==
    /\ spc = "returned"
    /\ readErr
    /\ ret.err

\* A worker about to send on results or errors.
SendsResult(w) == workers[w].pc = "probe"
SendsError(w) == workers[w].pc = "stat" /\ KindOf(workers[w].dir) = "staterr"

\* C33: a worker that is about to send on results or errors finds room in the
\* channel, the loop that fills jobs finds room too, and Scan returns in the
\* end.
C33_ScanTerminates ==
    /\ [](\A w \in DOMAIN workers :
            /\ SendsResult(w) => Len(results) < Len(dirs)
            /\ SendsError(w) => Len(errors) < Len(dirs))
    /\ []((spc = "send" /\ sent < Len(dirs)) => Len(jobs) < Len(dirs))
    /\ <>(spc = "returned")

\* Scan has returned after every job put something on results or errors.
C33_ChannelsFilled ==
    /\ spc = "returned"
    /\ Len(dirs) = MaxEntries
    /\ Len(workers) = MaxConcurrency
    /\ ~ret.err
    /\ Len(ret.projects) + Cardinality({i \in DOMAIN entries : entries[i] = "staterr"}) = Len(dirs)
    /\ Len(ret.projects) > 0 /\ Len(ret.projects) < Len(dirs)
\* C34: once Scan has returned without error the job queue is empty, every
\* worker has finished, nothing is left unread on the results channel, and the
\* returned list holds exactly one Project for each directory whose .git is a
\* directory.
C34_ReturnsAfterWorkers ==
    (spc = "returned" /\ ~ret.err) =>
        /\ jobs = << >>
        /\ \A w \in DOMAIN workers : workers[w].pc = "done"
        /\ results = << >>
        /\ { ret.projects[j].Path : j \in DOMAIN ret.projects } =
              { Join("root", i) : i \in { k \in DOMAIN entries : entries[k] = "repo" } }
        /\ Len(ret.projects) = Cardinality({ k \in DOMAIN entries : entries[k] = "repo" })

\* Scan has returned two projects that two workers found among three
\* directories, one of them without .git.
C34_TwoOfThreeReturned ==
    /\ spc = "returned"
    /\ Len(workers) = 2
    /\ Len(dirs) = 3
    /\ Len(ret.projects) = 2
    /\ \E i \in DOMAIN entries : entries[i] = "nogit"
\* A step taken by the thunk or by a worker of its Scan, as opposed to a step of
\* the message loop.
ThunkSide == scanVars' # scanVars /\ spc # "message"

WellFormedLog(o) ==
    /\ ~o.fail
    /\ o.out # << >>
    /\ Len(o.out[1]) >= 3
    /\ o.out[1][3] \in DOMAIN Digits

\* C36: the last-commit fields of a returned GitStatus are either all taken
\* from a log answer with three fields and a numeric timestamp, or all zero.
C36_LastCommitAllOrNothing ==
    got # Nil =>
        LET g == got.val
            o == runGit(repo, "log")
        IN
        \/ /\ g.LastCommitMsg = ""
           /\ g.LastCommitAuthor = ""
           /\ g.LastCommitTime = ZeroTime
        \/ /\ WellFormedLog(o)
           /\ g.LastCommitMsg = o.out[1][1]
           /\ g.LastCommitAuthor = o.out[1][2]
           /\ g.LastCommitTime = Unix(Digits[o.out[1][3]])

\* A probe of a repository whose log answer has a subject, an author and a
\* timestamp that does not parse returned with all three fields zero.
C36_BadTimestampDropsAll ==
    /\ got # Nil
    /\ ~got.err
    /\ repo.hang = 0
    /\ repo.log = Out(<< <<"init", "ann", "x">> >>)
    /\ got.val.LastCommitMsg = ""
    /\ got.val.LastCommitAuthor = ""
    /\ got.val.LastCommitTime = ZeroTime
\* The age a call of formatTimeAgo was made for, in seconds.
Age == arg.now - arg.t.unix

\* n is floor(d / unit)
IsFloor(n, d, unit) == n * unit <= d /\ d < (n + 1) * unit

\* The output says n units in the words of the age format rule, n being the
\* age in whole units.
Says(o, unit, word) ==
    /\ IsFloor(o.n, Age, unit)
    /\ o.text = (IF o.n = 1 THEN word \o " ago" ELSE word \o "s ago")

\* C38: formatTimeAgo gives "just now" below a minute, whole minutes below an
\* hour, whole hours below a day, whole days below a week and whole weeks from
\* there on, each rounded down, in the singular exactly for 1, and never 0
\* outside "just now".
C38_AgeFormatRule ==
    out # Nil =>
        /\ Age < 60 => out.val.text = "just now"
        /\ (Age >= 60 /\ Age < 3600) => Says(out.val, 60, "min")
        /\ (Age >= 3600 /\ Age < 86400) => Says(out.val, 3600, "hour")
        /\ (Age >= 86400 /\ Age < 604800) => Says(out.val, 86400, "day")
        /\ Age >= 604800 => Says(out.val, 604800, "week")
        /\ Age >= 60 => out.val.n >= 1

\* formatTimeAgo has answered for an age one second short of two days.
C38_AlmostTwoDays ==
    /\ out # Nil
    /\ Age = 2 * 86400 - 1
    /\ out.val.n = 1
    /\ out.val.text = "day ago"
HasSeg(row, kind) == \E i \in DOMAIN row : row[i].seg = kind
HasLine(lines, label) == \E i \in DOMAIN lines : lines[i].label = label

\* The project drawn has no last commit: subject, author and time are zero.
NoLastCommit(g) ==
    /\ g.LastCommitMsg = << >>
    /\ g.LastCommitAuthor = ""
    /\ g.LastCommitTime = ZeroTime

\* C37: the row has an age part exactly when the last-commit time is not zero;
\* for a project whose last-commit fields are all zero the detail view has no
\* "Last commit" and no "Author" line but has the Branch line and a Remote
\* line, which reads "(none)" when the remote is empty.
C37_ZeroTimeNotFormatted ==
    out # Nil =>
        LET g == arg.project.Git IN
        /\ HasSeg(out.row, "age") <=> g.LastCommitTime # ZeroTime
        /\ NoLastCommit(g) =>
              /\ ~HasLine(out.detail, "Last commit")
              /\ ~HasLine(out.detail, "Author")
              /\ HasLine(out.detail, "Branch")
              /\ HasLine(out.detail, "Remote")
              /\ g.Remote = "" =>
                    \E i \in DOMAIN out.detail :
                        out.detail[i].label = "Remote" /\ out.detail[i].value = "(none)"

\* A project with no last commit and no remote has been drawn.
C37_UnknownCommitDrawn ==
    /\ out # Nil
    /\ NoLastCommit(arg.project.Git)
    /\ arg.project.Git.Remote = ""
    /\ ~HasSeg(out.row, "age")
    /\ HasLine(out.detail, "Branch")
\* The glyph of each StatusKind.
GlyphOf ==
    (StatusClean :> "U+2713") @@ (StatusDirty :> "U+25CF") @@ (StatusAhead :> "U+2191")
        @@ (StatusBehind :> "U+2193") @@ (StatusDiverged :> "U+26A0")
        @@ (StatusNoRemote :> "U+25CB")

\* The status parts of a row.
StatusSegs(row) == SelectSeq(row, LAMBDA x : x.seg = "status")

\* C39: the status part of a row is the one glyph of the StatusKind, then the
\* uncommitted count after a plus-minus sign, the unpushed count after an up
\* arrow and the unpulled count after a down arrow, in this order, each there
\* exactly when the count is greater than zero.
C39_StatusGlyphAndCounts ==
    out # Nil =>
        LET g == arg.project.Git
            counts == << [glyph |-> "±", count |-> << g.Uncommitted >>],
                         [glyph |-> "U+2191", count |-> << g.Unpushed >>],
                         [glyph |-> "U+2193", count |-> << g.Unpulled >>] >>
        IN
        /\ Len(StatusSegs(out.row)) = 1
        /\ LET t == StatusSegs(out.row)[1].text IN
            /\ Len(t) >= 1
            /\ t[1] = [glyph |-> GlyphOf[g.Status], count |-> << >>]
            /\ Tail(t) = SelectSeq(counts, LAMBDA x : x.count[1] > 0)

\* A diverged project with two unpushed commits, one unpulled and a clean tree
\* has been drawn.
C39_DivergedDrawn ==
    /\ out # Nil
    /\ arg.project.Git.Status = StatusDiverged
    /\ arg.project.Git.Uncommitted = 0
    /\ arg.project.Git.Unpushed = 2
    /\ arg.project.Git.Unpulled = 1
    /\ Len(StatusSegs(out.row)[1].text) = 3
\* The characters a reader counts in a shown text: one for each first byte.
Characters(bytes) == Len(SelectSeq(bytes, LAMBDA b : b.at = 1))

\* The subject as the row shows it, without the surrounding quotes.
ShownSubject(row) ==
    LET q == SelectSeq(row, LAMBDA x : x.seg = "subject")[1].text
    IN SubSeq(q, 2, Len(q) - 1)

\* C40: the subject shown in a row has at most 30 characters; a subject of at
\* most 30 characters is shown as it is, and a longer one is shown as its
\* beginning followed by "...", 30 characters in all.
C40_SubjectWithinLimit ==
    (out # Nil /\ arg.project.Git.LastCommitMsg # << >>) =>
        LET msg == arg.project.Git.LastCommitMsg
            shown == ShownSubject(out.row)
        IN
        /\ Characters(shown) <= 30
        /\ Len(msg) <= 30 => shown = Bytes(msg)
        /\ Len(msg) > 30 =>
              /\ Characters(shown) = 30
              /\ shown = Bytes(SubSeq(msg, 1, 27)) \o Bytes(<<".", ".", ".">>)
====
